---- MODULE Spec2Model ----
(***************************************************************************)
(* Drape tester: the formula library (src/Script.js, DrapeCalculatorUtils), *)
(* the measurementHistory application (src/unnamed/part_000) and the       *)
(* AppState application (src/script.js).                                   *)
(*                                                                         *)
(* Numbers.  A JavaScript number is a record [nan, v]: NaN is the record   *)
(* with nan = TRUE, every other number carries its value in v.  Lengths    *)
(* are in cm.  Areas are counted in units of pi/4 cm^2 (pi/4 px^2 for      *)
(* pixel areas), so the area of a circle of diameter d is exactly d*d and  *)
(* every comparison and quotient of areas the code makes is a comparison   *)
(* or quotient of integers.  A quotient is a record [n, d] with d > 0.     *)
(***************************************************************************)
EXTENDS Integers, Sequences, FiniteSets, TLC

\* ------------------------------------------------------------------------
\* Bounds
\* ------------------------------------------------------------------------
MaxDiam == 30

\* ------------------------------------------------------------------------
\* JavaScript numbers and exact quotients
\* ------------------------------------------------------------------------
NaN == [nan |-> TRUE, v |-> 0]

Num(x) == [nan |-> FALSE, v |-> x]

isNaN(x) == x.nan

Rat(n, d) == [n |-> n, d |-> d]

RLt(a, b) == a.n * b.d < b.n * a.d

RLe(a, b) == a.n * b.d <= b.n * a.d

REq(a, b) == a.n * b.d = b.n * a.d

MathMin(a, b) == IF RLt(b, a) THEN b ELSE a

MathMax(a, b) == IF RLt(a, b) THEN b ELSE a

\* ------------------------------------------------------------------------
\* DrapeCalculatorUtils (src/Script.js)
\* ------------------------------------------------------------------------
calculateCircleArea(diameter) ==
  IF isNaN(diameter) \/ diameter.v <= 0 THEN 0
  ELSE diameter.v * diameter.v

calculateDrapeCoefficient_noClamp(drapedArea, diskDiameter, fabricDiameter) ==
  IF isNaN(drapedArea) \/ drapedArea.v <= 0 THEN Rat(0, 1)
  ELSE IF isNaN(diskDiameter) \/ diskDiameter.v <= 0 THEN Rat(0, 1)
  ELSE IF isNaN(fabricDiameter) \/ fabricDiameter.v <= 0 THEN Rat(0, 1)
  ELSE LET diskArea == calculateCircleArea(diskDiameter)
           fabricArea == calculateCircleArea(fabricDiameter)
       IN IF fabricArea <= diskArea THEN Rat(0, 1)
          ELSE Rat(100 * (drapedArea.v - diskArea), fabricArea - diskArea)

calculateDrapeCoefficient_inverted(drapedArea, diskDiameter, fabricDiameter) ==
  IF isNaN(drapedArea) \/ drapedArea.v <= 0 THEN Rat(0, 1)
  ELSE IF isNaN(diskDiameter) \/ diskDiameter.v <= 0 THEN Rat(0, 1)
  ELSE IF isNaN(fabricDiameter) \/ fabricDiameter.v <= 0 THEN Rat(0, 1)
  ELSE LET diskArea == calculateCircleArea(diskDiameter)
           fabricArea == calculateCircleArea(fabricDiameter)
       IN IF fabricArea <= diskArea \/ drapedArea.v <= diskArea THEN Rat(0, 1)
          ELSE MathMax(Rat(0, 1), MathMin(Rat(100, 1),
                 Rat(100 * (fabricArea - diskArea), drapedArea.v - diskArea)))

calculateDrapeCoefficient_onlyZeroDiv(drapedArea, diskDiameter, fabricDiameter) ==
  IF isNaN(drapedArea) \/ drapedArea.v <= 0 THEN Rat(0, 1)
  ELSE IF isNaN(diskDiameter) \/ diskDiameter.v <= 0 THEN Rat(0, 1)
  ELSE IF isNaN(fabricDiameter) \/ fabricDiameter.v <= 0 THEN Rat(0, 1)
  ELSE LET diskArea == calculateCircleArea(diskDiameter)
           fabricArea == calculateCircleArea(fabricDiameter)
       IN IF fabricArea = diskArea THEN Rat(0, 1)
          ELSE LET coefficient ==
                     IF fabricArea > diskArea
                     THEN Rat(100 * (drapedArea.v - diskArea), fabricArea - diskArea)
                     ELSE Rat(100 * (diskArea - drapedArea.v), diskArea - fabricArea)
               IN MathMax(Rat(0, 1), MathMin(Rat(100, 1), coefficient))

calculateDrapeCoefficient(drapedArea, diskDiameter, fabricDiameter) ==
  IF isNaN(drapedArea) \/ drapedArea.v <= 0 THEN Rat(0, 1)
  ELSE IF isNaN(diskDiameter) \/ diskDiameter.v <= 0 THEN Rat(0, 1)
  ELSE IF isNaN(fabricDiameter) \/ fabricDiameter.v <= 0 THEN Rat(0, 1)
  ELSE LET diskArea == calculateCircleArea(diskDiameter)
           fabricArea == calculateCircleArea(fabricDiameter)
       IN IF fabricArea <= diskArea THEN Rat(0, 1)
          ELSE LET coefficient ==
                     Rat(100 * (drapedArea.v - diskArea), fabricArea - diskArea)
               IN MathMax(Rat(0, 1), MathMin(Rat(100, 1), coefficient))

getDrapeCategory_inclusiveUpper(coefficient) ==
  IF RLt(coefficient, Rat(0, 1)) THEN "Invalid"
  ELSE IF RLe(coefficient, Rat(30, 1)) THEN "Stiff"
  ELSE IF RLe(coefficient, Rat(60, 1)) THEN "Medium Drape"
  ELSE IF RLe(coefficient, Rat(85, 1)) THEN "Good Drape"
  ELSE IF RLe(coefficient, Rat(100, 1)) THEN "Excellent Drape"
  ELSE "Very High Drape"

getDrapeCategory(coefficient) ==
  IF RLt(coefficient, Rat(0, 1)) THEN "Invalid"
  ELSE IF RLt(coefficient, Rat(30, 1)) THEN "Stiff"
  ELSE IF RLt(coefficient, Rat(60, 1)) THEN "Medium Drape"
  ELSE IF RLt(coefficient, Rat(85, 1)) THEN "Good Drape"
  ELSE IF RLe(coefficient, Rat(100, 1)) THEN "Excellent Drape"
  ELSE "Very High Drape"

validateInputs(diskDiameter, fabricDiameter) ==
  LET e1 == isNaN(diskDiameter) \/ diskDiameter.v <= 0
      e2 == isNaN(fabricDiameter) \/ fabricDiameter.v <= 0
      e3 == ~isNaN(fabricDiameter) /\ ~isNaN(diskDiameter)
            /\ fabricDiameter.v <= diskDiameter.v
  IN ~(e1 \/ e2 \/ e3)

\* ------------------------------------------------------------------------
\* Inputs of the formula library
\* ------------------------------------------------------------------------
Diams == {NaN} \cup {Num(d) : d \in {-1, 0} \cup {x \in 1..MaxDiam : x % 2 = 0}}

Areas == {NaN} \cup {Num(a) : a \in {-1, 0}
                        \cup {x * x + e : x \in {y \in 1..(MaxDiam + 2) : y % 2 = 0},
                                          e \in {-1, 0, 1}}}

Coefs == {Rat(n, 1) : n \in -1..101}
         \cup {Rat(1000 * b + e, 1000) : b \in {0, 30, 60, 85, 100}, e \in {-1, 1}}

NoRat == Rat(0, 0)

\* the checks of calculateDrapePercentage (src/unnamed/part_000) on the shown
\* area text and the two diameter inputs
calculateDrapePercentage_noAreaCheck(text, diskDiameter, fabricDiameter) ==
  IF text.dash THEN "analyze first"
  ELSE IF isNaN(diskDiameter) \/ diskDiameter.v <= 0 THEN "invalid disk"
  ELSE IF isNaN(fabricDiameter) \/ fabricDiameter.v <= 0 THEN "invalid fabric"
  ELSE IF fabricDiameter.v <= diskDiameter.v THEN "fabric not larger"
  ELSE ""

\* which check of calculateDrapePercentage rejects the press, "" when none
calculateDrapePercentage_rejects(text, diskDiameter, fabricDiameter) ==
  IF text.dash THEN "analyze first"
  ELSE IF text.v <= 0 THEN "invalid area"
  ELSE IF isNaN(diskDiameter) \/ diskDiameter.v <= 0 THEN "invalid disk"
  ELSE IF isNaN(fabricDiameter) \/ fabricDiameter.v <= 0 THEN "invalid fabric"
  ELSE IF fabricDiameter.v <= diskDiameter.v THEN "fabric not larger"
  ELSE ""

VARIABLES upc, uArea, uDisk, uFabric, uCoef, uCat

VARIABLES measurementHistory, stored, actualArea, drapeCoefficientText,
          hCapturedImage, hClickArmed, hDisk, hFabric,
          hNow, hLoaded, hRemoved, hPressed

VARIABLES capturedImage, isCameraActive, resetEnabled,
          referenceDiameter, diskDiameter, fabricDiameter, refTarget, shapeArea,
          detectedCoin, scaleFactor, referencePixelArea, clearEnabled,
          drapePixelAreaTotal, drapePixelArea, drapeAreaTotal, drapeArea,
          detectedDiskCircle,
          measurements, historyBody, aClock, isProcessing, timers, status, toast,
          run

utilVars == <<upc, uArea, uDisk, uFabric, uCoef, uCat>>

histVars == <<measurementHistory, stored, actualArea, drapeCoefficientText,
              hCapturedImage, hClickArmed, hDisk, hFabric,
              hNow, hLoaded, hRemoved, hPressed>>

imageVars == <<capturedImage, isCameraActive, resetEnabled>>

configVars == <<referenceDiameter, diskDiameter, fabricDiameter, refTarget, shapeArea>>

refVars == <<detectedCoin, scaleFactor, referencePixelArea, clearEnabled>>

areaVars == <<drapePixelAreaTotal, drapePixelArea, drapeAreaTotal, drapeArea,
              detectedDiskCircle>>

runVars == <<isProcessing, timers>>

\* the selection loops on their own: the candidates an image analysis hands to
\* a loop (circles or contours near a click, edge contours and intensity
\* contours of a drape image), the click, the expected area band, the loop
\* that has run and what it returned
VARIABLES qpc, qCircles, qSeed, qEdges, qIntensity, qBand, qResult

selVars == <<qpc, qCircles, qSeed, qEdges, qIntensity, qBand, qResult>>

\* the round trip through calculateExpectedDrapeArea and
\* calculateDrapeCoefficient: the three arguments, the area computed from
\* them and the coefficient computed back, all JavaScript numbers
VARIABLES fpc, fDisk, fFabric, fCoefficient, fArea, fBack

fpVars == <<fpc, fDisk, fFabric, fCoefficient, fArea, fBack>>

appVars == <<imageVars, configVars, refVars, areaVars, measurements, historyBody, aClock,
             runVars, status, toast, run>>

vars == <<utilVars, histVars, appVars, selVars, fpVars>>

notUtil == <<histVars, appVars, selVars, fpVars>>

notHist == <<utilVars, appVars, selVars, fpVars>>

notApp == <<utilVars, histVars, selVars, fpVars>>

notSel == <<utilVars, histVars, appVars, fpVars>>

notFp == <<utilVars, histVars, appVars, selVars>>

UtilInit ==
  /\ upc = "idle"
  /\ uArea = NaN
  /\ uDisk = NaN
  /\ uFabric = NaN
  /\ uCoef = NoRat
  /\ uCat = "none"

\* a caller applies calculateDrapeCoefficient to one triple of arguments
UCalculate ==
  /\ upc = "idle"
  /\ \E a \in Areas, d \in Diams, f \in Diams :
        /\ uArea' = a
        /\ uDisk' = d
        /\ uFabric' = f
        /\ uCoef' = calculateDrapeCoefficient(a, d, f)
  /\ upc' = "coefficient"
  /\ UNCHANGED uCat
  /\ UNCHANGED notUtil

\* a caller classifies the coefficient it has just computed
UCategoryOfResult ==
  /\ upc = "coefficient"
  /\ uCat' = getDrapeCategory(uCoef)
  /\ upc' = "category"
  /\ UNCHANGED <<uArea, uDisk, uFabric, uCoef>>
  /\ UNCHANGED notUtil

\* a caller classifies a coefficient of its own
UCategory ==
  /\ upc = "idle"
  /\ \E c \in Coefs :
        /\ uCoef' = c
        /\ uCat' = getDrapeCategory(c)
  /\ upc' = "classified"
  /\ UNCHANGED <<uArea, uDisk, uFabric>>
  /\ UNCHANGED notUtil

UtilNext == UCalculate \/ UCategoryOfResult \/ UCategory

\* ------------------------------------------------------------------------
\* The measurementHistory application (src/unnamed/part_000)
\*
\* A text of the page that shows a number is a record [dash, v]: dash = TRUE
\* is the text '--', otherwise v is the number shown, in hundredths (the
\* code writes every number with toFixed(2)).  An entry of the history holds
\* id (Date.now() at its insertion; the clock advances between two presses),
\* area and drapePercent, both in hundredths.
\* ------------------------------------------------------------------------
HistoryCap == 20

MaxAdds == 3

MaxDeletes == 1

Dash == [dash |-> TRUE, v |-> 0]

Shown(x) == [dash |-> FALSE, v |-> x]

\* Number.prototype.toFixed(2) of a quotient, as a count of hundredths
toFixed2(r) ==
  IF r.n >= 0 THEN (200 * r.n + r.d) \div (2 * r.d)
  ELSE 0 - ((200 * (0 - r.n) + r.d) \div (2 * r.d))

\* the entry a previous session left in localStorage at clock value k
SavedEntry(k) == [id |-> k, area |-> 40000, drapePercent |-> 1319]

\* the history a previous session saved: len entries, most recent first
SavedHistory(len) == [i \in 1..len |-> SavedEntry(len - i + 1)]

SavedLens == {0, HistoryCap - 1, HistoryCap}

\* the values processImageWithReference can show as the measured area
MeasuredAreas == {0, 40000, 100000}

\* the values parseFloat reads from the two diameter inputs
HDiams == {NaN, Num(0), Num(18), Num(30)}

saveHistory(h) == h

loadHistory(saved) == saved

addToHistory_noEvict(h, area, drapePercent, now) ==
  LET measurement == [id |-> now, area |-> toFixed2(Rat(area, 100)),
                      drapePercent |->
                        toFixed2(MathMin(Rat(100, 1), MathMax(Rat(0, 1), drapePercent)))]
  IN <<measurement>> \o h

\* addToHistory: unshift the new measurement, pop the last one beyond the cap
addToHistory(h, area, drapePercent, now) ==
  LET measurement == [id |-> now, area |-> toFixed2(Rat(area, 100)),
                      drapePercent |->
                        toFixed2(MathMin(Rat(100, 1), MathMax(Rat(0, 1), drapePercent)))]
      unshifted == <<measurement>> \o h
  IN IF Len(unshifted) > HistoryCap
     THEN SubSeq(unshifted, 1, Len(unshifted) - 1)
     ELSE unshifted

RECURSIVE deleteMeasurement(_, _)
deleteMeasurement(h, id) ==
  IF h = <<>> THEN <<>>
  ELSE IF Head(h).id # id THEN <<Head(h)>> \o deleteMeasurement(Tail(h), id)
       ELSE deleteMeasurement(Tail(h), id)

HistInit ==
  /\ \E len \in SavedLens :
        /\ stored = SavedHistory(len)
        /\ measurementHistory = loadHistory(SavedHistory(len))
        /\ hNow = len
        /\ hLoaded = len
  /\ actualArea = Dash
  /\ drapeCoefficientText = Dash
  /\ hCapturedImage = FALSE
  /\ hClickArmed = FALSE
  /\ hDisk = Num(18)
  /\ hFabric = Num(30)
  /\ hRemoved = 0
  /\ hPressed = FALSE

HistQuiet ==
  /\ stored = <<>>
  /\ measurementHistory = <<>>
  /\ hNow = 0
  /\ hLoaded = 0
  /\ actualArea = Dash
  /\ drapeCoefficientText = Dash
  /\ hCapturedImage = FALSE
  /\ hClickArmed = FALSE
  /\ hDisk = Num(18)
  /\ hFabric = Num(30)
  /\ hRemoved = 0
  /\ hPressed = FALSE

\* the operator types into the disk or fabric diameter input
HEditDiameters ==
  /\ \E d \in HDiams, f \in HDiams :
        /\ (d = hDisk) # (f = hFabric)
        /\ hDisk' = d
        /\ hFabric' = f
  /\ hPressed' = FALSE
  /\ UNCHANGED <<measurementHistory, stored, actualArea, drapeCoefficientText,
                 hCapturedImage, hClickArmed, hNow, hLoaded, hRemoved>>
  /\ UNCHANGED notHist

\* handleImageUpload (reader.onload / img.onload) and captureImage: the upload
\* and capture buttons are disabled from the first image until resetApp
HImageLoaded ==
  /\ ~hCapturedImage
  /\ hCapturedImage' = TRUE
  /\ hClickArmed' = TRUE
  /\ hPressed' = FALSE
  /\ UNCHANGED <<measurementHistory, stored, actualArea, drapeCoefficientText,
                 hDisk, hFabric, hNow, hLoaded, hRemoved>>
  /\ UNCHANGED notHist

\* handleCanvasClick, which removes its listener and runs
\* processImageWithReference; the measured area is shown when a drape contour
\* and a reference are found (also when displayProcessedImage then throws)
HCanvasClick ==
  /\ hClickArmed
  /\ hCapturedImage
  /\ hClickArmed' = FALSE
  /\ hPressed' = FALSE
  /\ \/ \E a \in MeasuredAreas : actualArea' = Shown(a)
     \/ UNCHANGED actualArea
  /\ UNCHANGED <<measurementHistory, stored, drapeCoefficientText, hCapturedImage,
                 hDisk, hFabric, hNow, hLoaded, hRemoved>>
  /\ UNCHANGED notHist

\* calculateDrapePercentage, a press that one of its checks rejects (an alert)
HCalculateRejected ==
  /\ calculateDrapePercentage_rejects(actualArea, hDisk, hFabric) # ""
  /\ hPressed' = TRUE
  /\ UNCHANGED <<measurementHistory, stored, actualArea, drapeCoefficientText,
                 hCapturedImage, hClickArmed, hDisk, hFabric, hNow, hLoaded,
                 hRemoved>>
  /\ UNCHANGED notHist

\* calculateDrapePercentage, a press that passes the checks: it shows the
\* coefficient and calls addToHistory (updateHistoryTable, saveHistory)
HCalculate ==
  /\ hNow < hLoaded + MaxAdds
  /\ calculateDrapePercentage_rejects(actualArea, hDisk, hFabric) = ""
  /\ LET diskArea == hDisk.v * hDisk.v
         fabricArea == hFabric.v * hFabric.v
         drapeCoefficient ==
           Rat(actualArea.v - 100 * diskArea, fabricArea - diskArea)
     IN /\ drapeCoefficientText' = Shown(toFixed2(drapeCoefficient))
        /\ hNow' = hNow + 1
        /\ measurementHistory' =
             addToHistory(measurementHistory, actualArea.v, drapeCoefficient, hNow + 1)
        /\ stored' = saveHistory(measurementHistory')
  /\ hPressed' = TRUE
  /\ UNCHANGED <<actualArea, hCapturedImage, hClickArmed, hDisk, hFabric, hLoaded,
                 hRemoved>>
  /\ UNCHANGED notHist

\* the delete button of the first or of the last row of the table
HDeleteMeasurement ==
  /\ hRemoved < MaxDeletes
  /\ \E i \in {1, Len(measurementHistory)} \ {0} :
        /\ measurementHistory' =
             deleteMeasurement(measurementHistory, measurementHistory[i].id)
        /\ stored' = saveHistory(measurementHistory')
  /\ hRemoved' = hRemoved + 1
  /\ hPressed' = FALSE
  /\ UNCHANGED <<actualArea, drapeCoefficientText, hCapturedImage, hClickArmed,
                 hDisk, hFabric, hNow, hLoaded>>
  /\ UNCHANGED notHist

\* clearHistory, confirmed
HClearHistory ==
  /\ hRemoved < MaxDeletes
  /\ measurementHistory # <<>>
  /\ measurementHistory' = <<>>
  /\ stored' = saveHistory(measurementHistory')
  /\ hRemoved' = hRemoved + 1
  /\ hPressed' = FALSE
  /\ UNCHANGED <<actualArea, drapeCoefficientText, hCapturedImage, hClickArmed,
                 hDisk, hFabric, hNow, hLoaded>>
  /\ UNCHANGED notHist

\* resetApp of the measurementHistory application
HResetApp ==
  /\ hCapturedImage
  /\ actualArea' = Dash
  /\ drapeCoefficientText' = Dash
  /\ hCapturedImage' = FALSE
  /\ hClickArmed' = FALSE
  /\ hPressed' = FALSE
  /\ UNCHANGED <<measurementHistory, stored, hDisk, hFabric, hNow, hLoaded, hRemoved>>
  /\ UNCHANGED notHist

HistNext ==
  \/ HEditDiameters
  \/ HImageLoaded
  \/ HCanvasClick
  \/ HCalculateRejected
  \/ HCalculate
  \/ HDeleteMeasurement
  \/ HClearHistory
  \/ HResetApp

\* ------------------------------------------------------------------------
\* The AppState application (src/script.js)
\*
\* capturedImage is TRUE when AppState.capturedImage holds a Mat and FALSE
\* when it is null.  resetEnabled and clearEnabled are the enabled states of
\* the #reset / #capture and #clearReference buttons.  referenceDiameter is
\* kept in mm, the disk and fabric diameters in cm.  scaleFactor is a
\* quotient in px/cm, NoRat when AppState.scaleFactor is null.  timers is
\* the queue of callbacks that setTimeout holds; the field stale of a
\* callback is history: it records that clearReference, resetApp or an
\* image load ran after processDrapeArea scheduled it.  toast is the message
\* of the last UIUtils.showToast call, without the text of a caught
\* error.  run is history: what the image analysis did in the seed click or
\* deferred task that made the last step (whether an OpenCV call failed, what
\* the support disk search returned, the disk pixels found inside the shadow,
\* how often the shadow mask was deleted, whether a deleted object was used).
\* ------------------------------------------------------------------------
MaxMeasurements == 2

MaxContours == 2

NoCoin == [found |-> FALSE, radius |-> 0]

Coin(r) == [found |-> TRUE, radius |-> r]

Radii == {20}

\* detectCoinContour passes the number radius = 0 by value to
\* cv.minEnclosingCircle: when the call returns, radius is still 0
ContourRadii == {0}

CoinDiameter == 25

CustomDiameters == {20}

ADiskDiameters == {-18, 18}

AFabricDiameters == {18, 30}

ShapeSides == {0, 2}

ShapeScales == {16}

PrimaryContours == {[area |-> 100000, circular |-> TRUE],
                    [area |-> 100000, circular |-> FALSE],
                    [area |-> 20000, circular |-> TRUE]}

FallbackContours == {[area |-> 500, hullArea |-> 100000],
                     [area |-> 100000, hullArea |-> 100000],
                     [area |-> 110000, hullArea |-> 110000]}

DiskOverlaps == {80000}

Outcome(kind, v) == [kind |-> kind, v |-> v]

CoinOutcomes == {Outcome(k, 0) : k \in {"outside", "none", "swallowed", "throws"}}
                \cup {Outcome("circle", r) : r \in Radii \cup ContourRadii}

Run(cvFailed, disk, overlap) ==
  [cvFailed |-> cvFailed, disk |-> disk, overlap |-> overlap,
   shadowMaskDeletes |-> 0, usedDeleted |-> FALSE]

NoRun == Run(FALSE, "-", 0)

ShapeOutcomes(realAreaCm2) ==
  {Outcome(k, 0) : k \in {"outside", "throws", "mask"}}
  \cup {Outcome("mask", k * k * realAreaCm2) : k \in ShapeScales}

\* the lists of at most n different contours of S
ContourLists(S, n) ==
  {s \in UNION {[1..k -> S] : k \in 0..n} :
     \A i, j \in DOMAIN s : i # j => s[i] # s[j]}

PrimaryLists == ContourLists(PrimaryContours, MaxContours)

FallbackLists == ContourLists(FallbackContours, MaxContours)

RECURSIVE Gcd(_, _)
Gcd(a, b) == IF b = 0 THEN a ELSE Gcd(b, a % b)

Reduced(n, d) == LET g == Gcd(n, d) IN Rat(n \div g, d \div g)

MathSqrt(n) == CHOOSE k \in 0..n : k * k = n

seedAccepted_ignoresProcessing(image, processing) == image

\* the guard of handleCanvasClick, detectCoin and detectReferenceShape
seedAccepted(image, processing) == image /\ ~processing

\* the guard of processDrapeArea
canProcess(image, coin, processing) == image /\ coin.found /\ ~processing

updateScaleFactor(coin, refDiameter) == Reduced(2 * coin.radius * 10, refDiameter)

pixelAreaToCm2(pixelArea, sf) == Reduced(pixelArea * sf.d * sf.d, sf.n * sf.n)

minDrapeArea(disk, sf) == Rat(6 * disk * disk * sf.n * sf.n, 5 * sf.d * sf.d)

maxDrapeArea(fabric, sf) == Rat(19 * fabric * fabric * sf.n * sf.n, 20 * sf.d * sf.d)

\* the edge-contour loop of processDrapeArea: index of the chosen contour,
\* 0 when none is chosen
primaryBetter_lastWins(circular, area, bestContourArea) ==
  circular /\ area >= bestContourArea

\* circularity > 0.3 && area > bestContourArea
primaryBetter(circular, area, bestContourArea) ==
  circular /\ area > bestContourArea

RECURSIVE selectPrimary(_, _, _, _, _, _)
selectPrimary(contours, i, lo, hi, bestContourIndex, bestContourArea) ==
  IF i > Len(contours) THEN bestContourIndex
  ELSE LET area == contours[i].area
       IN IF RLt(Rat(area, 1), lo) \/ RLt(hi, Rat(area, 1))
          THEN selectPrimary(contours, i + 1, lo, hi, bestContourIndex, bestContourArea)
          ELSE IF primaryBetter(contours[i].circular, area, bestContourArea)
               THEN selectPrimary(contours, i + 1, lo, hi, i, area)
               ELSE selectPrimary(contours, i + 1, lo, hi, bestContourIndex, bestContourArea)

\* the intensity-contour loop of processDrapeArea: the chosen index and the
\* number of contours it accepted (each acceptance deletes `contours`)
RECURSIVE selectFallback(_, _, _, _, _, _, _)
selectFallback(contours, i, lo, hi, bestContourIndex, bestContourArea, accepted) ==
  IF i > Len(contours) THEN [index |-> bestContourIndex, accepted |-> accepted]
  ELSE LET area == contours[i].area
           hullArea == contours[i].hullArea
       IN IF area > 1000 /\ area > bestContourArea
             /\ RLt(lo, Rat(hullArea, 1)) /\ RLt(Rat(hullArea, 1), hi)
          THEN selectFallback(contours, i + 1, lo, hi, i, hullArea, accepted + 1)
          ELSE selectFallback(contours, i + 1, lo, hi, bestContourIndex,
                              bestContourArea, accepted)

\* DrapeFormulas is not part of src/; its two functions follow the formula
\* library of the specification.
DrapeFormulas_drapeCoefficient(total, diskD, fabricD) ==
  LET As == diskD * diskD
      Af == fabricD * fabricD
      numerator == Af - As
      denominator == total.n - As * total.d
  IN IF total.n <= 0 \/ denominator <= 0 \/ numerator <= 0 THEN Rat(0, 1)
     ELSE LET c == Reduced(100 * numerator * total.d, denominator)
          IN MathMax(Rat(0, 1), MathMin(Rat(100, 1), c))

DrapeFormulas_fabricProperties(c) ==
  IF RLt(c, Rat(30, 1)) THEN "Stiff"
  ELSE IF RLt(c, Rat(60, 1)) THEN "MediumDrape"
  ELSE IF RLt(c, Rat(85, 1)) THEN "GoodDrape"
  ELSE "ExcellentDrape"

\* addToHistory of src/script.js: AppState.measurements.push
appAddToHistory(ms, area, coefficient, property, now) ==
  Append(ms, [time |-> now, area |-> area, coefficient |-> coefficient,
              property |-> property])

\* addToHistory of src/script.js: historyBody.prepend(row); a row is named by
\* the time of the measurement it shows
prependRow(rows, now) == <<now>> \o rows

RemoveAt(s, i) == [j \in 1..(Len(s) - 1) |-> IF j < i THEN s[j] ELSE s[j + 1]]

\* deleteRow of src/script.js, the array: splice at the position the row has in
\* the table (row counts from 1 here)
deleteRow(ms, rows, row) == IF row <= Len(ms) THEN RemoveAt(ms, row) ELSE ms

MarkStale(ts) == [i \in 1..Len(ts) |-> [ts[i] EXCEPT !.stale = TRUE]]

\* the AppState literal with the support disk diameter given
AppStateWith(disk) ==
  /\ capturedImage = FALSE
  /\ isCameraActive = FALSE
  /\ resetEnabled = FALSE
  /\ referenceDiameter = CoinDiameter
  /\ diskDiameter = disk
  /\ fabricDiameter = 30
  /\ refTarget = "coin"
  /\ shapeArea \in {s * s : s \in ShapeSides}
  /\ detectedCoin = NoCoin
  /\ scaleFactor = NoRat
  /\ referencePixelArea = 0
  /\ clearEnabled = FALSE
  /\ drapePixelAreaTotal = 0
  /\ drapePixelArea = 0
  /\ drapeAreaTotal = Rat(0, 1)
  /\ drapeArea = Rat(0, 1)
  /\ detectedDiskCircle = FALSE
  /\ measurements = <<>>
  /\ historyBody = <<>>
  /\ aClock = 0
  /\ isProcessing = FALSE
  /\ timers = <<>>
  /\ status = "Ready - Upload image or use camera"
  /\ toast = "OpenCV loaded successfully"
  /\ run = NoRun

AppInit == AppStateWith(18)

\* a support disk of 10 cm, typed into #diskDiameter before anything else
SmallDiskDiameter == 10

AppInitSmallDisk == AppStateWith(SmallDiskDiameter)

AppQuiet ==
  /\ capturedImage = FALSE
  /\ isCameraActive = FALSE
  /\ resetEnabled = FALSE
  /\ referenceDiameter = CoinDiameter
  /\ diskDiameter = 18
  /\ fabricDiameter = 30
  /\ refTarget = "coin"
  /\ shapeArea = 0
  /\ detectedCoin = NoCoin
  /\ scaleFactor = NoRat
  /\ referencePixelArea = 0
  /\ clearEnabled = FALSE
  /\ drapePixelAreaTotal = 0
  /\ drapePixelArea = 0
  /\ drapeAreaTotal = Rat(0, 1)
  /\ drapeArea = Rat(0, 1)
  /\ detectedDiskCircle = FALSE
  /\ measurements = <<>>
  /\ historyBody = <<>>
  /\ aClock = 0
  /\ isProcessing = FALSE
  /\ timers = <<>>
  /\ status = "Ready - Upload image or use camera"
  /\ toast = "OpenCV loaded successfully"
  /\ run = NoRun

\* the assignments of clearReference, its status line apart
clearReferenceState ==
  /\ detectedCoin' = NoCoin
  /\ scaleFactor' = NoRat
  /\ drapeArea' = Rat(0, 1)
  /\ drapePixelArea' = 0
  /\ referencePixelArea' = 0
  /\ clearEnabled' = FALSE
  /\ timers' = MarkStale(timers)
  /\ UNCHANGED <<drapePixelAreaTotal, drapeAreaTotal, detectedDiskCircle, isProcessing>>

AStartCamera ==
  /\ ~isCameraActive
  /\ \E granted \in BOOLEAN :
       IF granted
       THEN /\ isCameraActive' = TRUE
            /\ resetEnabled' = TRUE
            /\ status' = "Camera active. Position drape and coin, then click Capture Image"
            /\ toast' = "Camera started successfully"
       ELSE /\ status' = "Error: Could not access camera"
            /\ toast' = "Camera error"
            /\ UNCHANGED <<isCameraActive, resetEnabled>>
  /\ UNCHANGED <<capturedImage, configVars, refVars, areaVars, measurements, historyBody,
                 aClock, runVars>>
  /\ run' = NoRun
  /\ UNCHANGED notApp

AHandleImageUpload ==
  /\ \E loaded \in BOOLEAN :
       IF loaded
       THEN /\ capturedImage' = TRUE
            /\ resetEnabled' = TRUE
            /\ clearReferenceState
            /\ status' = "Reference cleared. Click on coin to detect."
            /\ toast' = "Image loaded successfully"
       ELSE /\ status' = "Error loading image"
            /\ toast' = "Error loading image"
            /\ UNCHANGED <<capturedImage, resetEnabled, refVars, areaVars, runVars>>
  /\ isCameraActive' = FALSE
  /\ UNCHANGED <<configVars, measurements, historyBody, aClock>>
  /\ run' = NoRun
  /\ UNCHANGED notApp

ACaptureImage ==
  /\ resetEnabled
  /\ IF ~isCameraActive
     THEN /\ toast' = "Start camera first"
          /\ UNCHANGED <<imageVars, refVars, areaVars, runVars, status>>
     ELSE /\ capturedImage' = TRUE
          /\ isCameraActive' = FALSE
          /\ clearReferenceState
          /\ status' = "Reference cleared. Click on coin to detect."
          /\ toast' = "Image captured successfully"
          /\ UNCHANGED resetEnabled
  /\ UNCHANGED <<configVars, measurements, historyBody, aClock>>
  /\ run' = NoRun
  /\ UNCHANGED notApp

\* #refType 'coin' / 'coin5' and the custom #refDiameter input
AReferenceDiameterChange ==
  /\ \E d \in {CoinDiameter} \cup CustomDiameters :
       /\ d # referenceDiameter
       /\ referenceDiameter' = d
       /\ scaleFactor' = IF detectedCoin.found THEN updateScaleFactor(detectedCoin, d)
                         ELSE scaleFactor
  /\ UNCHANGED <<imageVars, diskDiameter, fabricDiameter, refTarget, shapeArea,
                 detectedCoin, referencePixelArea, clearEnabled, areaVars,
                 measurements, historyBody, aClock, runVars, status, toast>>
  /\ run' = NoRun
  /\ UNCHANGED notApp

ADiskDiameterChange ==
  /\ \E d \in ADiskDiameters :
       /\ d # diskDiameter
       /\ diskDiameter' = d
  /\ UNCHANGED <<imageVars, referenceDiameter, fabricDiameter, refTarget, shapeArea,
                 refVars, areaVars, measurements, historyBody, aClock, runVars, status, toast>>
  /\ run' = NoRun
  /\ UNCHANGED notApp

AFabricDiameterChange ==
  /\ \E d \in AFabricDiameters :
       /\ d # fabricDiameter
       /\ fabricDiameter' = d
  /\ UNCHANGED <<imageVars, referenceDiameter, diskDiameter, refTarget, shapeArea,
                 refVars, areaVars, measurements, historyBody, aClock, runVars, status, toast>>
  /\ run' = NoRun
  /\ UNCHANGED notApp

ARefTargetChange ==
  /\ refTarget' = IF refTarget = "coin" THEN "shape" ELSE "coin"
  /\ UNCHANGED <<imageVars, referenceDiameter, diskDiameter, fabricDiameter, shapeArea,
                 refVars, areaVars, measurements, historyBody, aClock, runVars, status, toast>>
  /\ run' = NoRun
  /\ UNCHANGED notApp

AShapeSizeChange ==
  /\ \E side \in ShapeSides :
       /\ side * side # shapeArea
       /\ shapeArea' = IF side > 0 THEN side * side ELSE 0
  /\ UNCHANGED <<imageVars, referenceDiameter, diskDiameter, fabricDiameter, refTarget,
                 refVars, areaVars, measurements, historyBody, aClock, runVars, status, toast>>
  /\ run' = NoRun
  /\ UNCHANGED notApp

\* detectCoin after its guard, with what the image analysis finds at the click
detectCoin ==
  \E found \in CoinOutcomes :
    IF found.kind = "outside"
    THEN /\ status' = "Click must be within the image area"
         /\ toast' = "Click must be within the image area"
         /\ run' = NoRun
         /\ UNCHANGED <<refVars, runVars>>
    ELSE IF found.kind = "throws"
    THEN /\ status' = "Error detecting coin"
         /\ toast' = "Error detecting coin"
         /\ run' = Run(TRUE, "-", 0)
         /\ UNCHANGED <<refVars, runVars>>
    ELSE IF found.kind \in {"none", "swallowed"}
    THEN /\ status' = "Could not detect coin. Click closer to coin center."
         /\ toast' = "Click closer to the center of the coin"
         /\ run' = Run(found.kind = "swallowed", "-", 0)
         /\ UNCHANGED <<refVars, runVars>>
    ELSE /\ detectedCoin' = Coin(found.v)
         /\ run' = NoRun
         /\ scaleFactor' = updateScaleFactor(Coin(found.v), referenceDiameter)
         /\ IF canProcess(capturedImage, Coin(found.v), isProcessing)
            THEN /\ isProcessing' = TRUE
                 /\ timers' = Append(timers, [stale |-> FALSE])
            ELSE UNCHANGED runVars
         /\ clearEnabled' = TRUE
         /\ status' = "Coin detected! Processing drape area..."
         /\ toast' = "Coin detected successfully"
         /\ UNCHANGED referencePixelArea

\* detectReferenceShape after its guard
detectReferenceShape ==
  IF shapeArea <= 0
  THEN /\ status' = "Select a square size, then click inside the square reference object."
       /\ toast' = "Select a square size before clicking on the reference object."
       /\ run' = NoRun
       /\ UNCHANGED <<refVars, runVars>>
  ELSE \E found \in ShapeOutcomes(shapeArea) :
    IF found.kind = "outside"
    THEN /\ status' = "Click must be within the image area"
         /\ toast' = "Click must be within the image area"
         /\ run' = NoRun
         /\ UNCHANGED <<refVars, runVars>>
    ELSE IF found.kind = "throws"
    THEN /\ status' = "Error detecting square reference object"
         /\ toast' = "Error detecting square reference object"
         /\ run' = Run(TRUE, "-", 0)
         /\ UNCHANGED <<refVars, runVars>>
    ELSE IF found.v = 0
    THEN /\ referencePixelArea' = 0
         /\ status' = "Could not detect a reference region around the click."
         /\ toast' = "Could not detect a reference region."
         /\ run' = NoRun
         /\ UNCHANGED <<detectedCoin, scaleFactor, clearEnabled, runVars>>
    ELSE /\ referencePixelArea' = found.v
         /\ scaleFactor' = Rat(MathSqrt(found.v \div shapeArea), 1)
         /\ clearEnabled' = TRUE
         /\ status' = "Square reference detected and shape area calculated from pixels."
         /\ toast' = "Square reference detected and shape area calculated from pixels."
         /\ run' = NoRun
         /\ UNCHANGED <<detectedCoin, runVars>>

ACanvasClick ==
  /\ Len(measurements) < MaxMeasurements
  /\ IF ~seedAccepted(capturedImage, isProcessing)
     THEN /\ toast' = "Please load an image first"
          /\ run' = NoRun
          /\ UNCHANGED <<refVars, runVars, status>>
     ELSE IF refTarget = "shape" THEN detectReferenceShape ELSE detectCoin
  /\ UNCHANGED <<imageVars, configVars, areaVars, measurements, historyBody, aClock>>
  /\ UNCHANGED notApp

afterTask_leavesFlag(processing) == processing

\* the finally block of the deferred task
afterTask(processing) == FALSE

\* the catch block of the deferred task; cvFailed tells an exception raised
\* by an OpenCV call from one raised by the script itself
TaskThrows(cvFailed) ==
  /\ status' = "Error processing drape area"
  /\ toast' = "Error processing drape area"
  /\ run' = Run(cvFailed, "-", 0)
  /\ UNCHANGED <<areaVars, measurements, historyBody, aClock>>

TaskFindsNothing ==
  /\ status' = "Could not detect drape area. Check disk/fabric diameter settings."
  /\ toast' = "Could not detect drape area. Verify diameter settings."
  /\ run' = NoRun
  /\ UNCHANGED <<areaVars, measurements, historyBody, aClock>>

\* the intensity loop accepts a second contour: contours is by then the vector
\* the loop runs over, so contours.delete() releases it and the loop's next
\* drapeContours.size() is a call on a deleted object
TaskUsesDeleted ==
  /\ status' = "Error processing drape area"
  /\ toast' = "Error processing drape area"
  /\ run' = [Run(TRUE, "-", 0) EXCEPT !.usedDeleted = TRUE]
  /\ UNCHANGED <<areaVars, measurements, historyBody, aClock>>

\* shadowMask.delete() stands in the branch of a found disk circle only
shadowMaskDeletes(diskFound) == IF diskFound THEN 1 ELSE 0

\* what detectSupportDiskCircle hands back: a circle, null because no circle
\* was found, or null because an OpenCV call threw inside it
DiskSearches == {"found", "none", "threw"}

fabricShadowPixelArea_keepsDisk(totalShadowPixelArea, diskPixelAreaInShadow) ==
  totalShadowPixelArea

\* countNonZero(shadowMask AND NOT diskMask)
fabricShadowPixelArea(totalShadowPixelArea, diskPixelAreaInShadow) ==
  totalShadowPixelArea - diskPixelAreaInShadow

measurementAdded_never(totalAreaCm2, sf) == FALSE

\* calculateDrapeCoefficient returns early unless AppState.drapeAreaTotal and
\* AppState.scaleFactor are set
measurementAdded(totalAreaCm2, sf) == totalAreaCm2.n > 0 /\ sf # NoRat /\ sf.n # 0

\* the branch bestContourIndex >= 0 of the deferred task, calculateDrapeCoefficient
\* and addToHistory included
TaskMeasures(totalShadowPixelArea) ==
  \E diskCircle \in DiskSearches :
  \E overlap \in IF diskCircle = "found"
                 THEN {o \in DiskOverlaps : o <= totalShadowPixelArea} ELSE {0} :
    LET fabricOnly == IF diskCircle = "found"
                      THEN fabricShadowPixelArea(totalShadowPixelArea, overlap)
                      ELSE totalShadowPixelArea
        totalAreaCm2 == pixelAreaToCm2(totalShadowPixelArea, scaleFactor)
        fabricOnlyAreaCm2 == pixelAreaToCm2(fabricOnly, scaleFactor)
        drapeCoefficient == DrapeFormulas_drapeCoefficient(totalAreaCm2, 18, 30)
        fabricProps == DrapeFormulas_fabricProperties(drapeCoefficient)
    IN /\ drapePixelAreaTotal' = totalShadowPixelArea
       /\ detectedDiskCircle' = (diskCircle = "found")
       /\ drapePixelArea' = fabricOnly
       /\ drapeAreaTotal' = totalAreaCm2
       /\ drapeArea' = fabricOnlyAreaCm2
       /\ IF measurementAdded(totalAreaCm2, scaleFactor)
          THEN /\ aClock' = aClock + 1
               /\ measurements' = appAddToHistory(measurements, fabricOnlyAreaCm2,
                                                  drapeCoefficient, fabricProps, aClock + 1)
               /\ historyBody' = prependRow(historyBody, aClock + 1)
          ELSE UNCHANGED <<measurements, historyBody, aClock>>
       /\ status' = "Drape area processed successfully"
       /\ toast' = "Drape area processed successfully"
       /\ run' = [Run(diskCircle = "threw", diskCircle, overlap)
                 EXCEPT !.shadowMaskDeletes = shadowMaskDeletes(diskCircle = "found")]

\* an OpenCV call of the branch bestContourIndex >= 0 throws while the disk is
\* being removed from the shadow mask: drapePixelAreaTotal and
\* detectedDiskCircle are already written, the catch block does the rest
TaskThrowsMidway(totalShadowPixelArea) ==
  /\ drapePixelAreaTotal' = totalShadowPixelArea
  /\ detectedDiskCircle' = TRUE
  /\ status' = "Error processing drape area"
  /\ toast' = "Error processing drape area"
  /\ run' = Run(TRUE, "found", 0)
  /\ UNCHANGED <<drapePixelArea, drapeAreaTotal, drapeArea, measurements, historyBody, aClock>>

TaskSegments(totalShadowPixelArea) ==
  \/ TaskMeasures(totalShadowPixelArea)
  \/ TaskThrowsMidway(totalShadowPixelArea)

\* the callback processDrapeArea hands to setTimeout.  The edge contours and
\* the intensity contours are what the image analysis finds; the intensity
\* contours matter only when no edge contour is chosen.  primary and fallback
\* are the outcomes of the two loops over all contour lists: the pixel area of
\* the chosen contour, 0 when none is chosen, -1 when the intensity loop
\* accepts a second contour (it then works on the vector it has deleted).
ATimerFires ==
  /\ timers # <<>>
  /\ timers' = Tail(timers)
  /\ isProcessing' = afterTask(isProcessing)
  /\ IF ~capturedImage \/ scaleFactor = NoRat
     THEN TaskThrows(FALSE)
     ELSE LET lo == minDrapeArea(diskDiameter, scaleFactor)
              hi == maxDrapeArea(fabricDiameter, scaleFactor)
              primary == {IF selectPrimary(contours, 1, lo, hi, 0, 0) = 0 THEN 0
                          ELSE contours[selectPrimary(contours, 1, lo, hi, 0, 0)].area :
                            contours \in PrimaryLists}
              fallback == {LET fb == selectFallback(drapeContours, 1, lo, hi, 0, 0, 0)
                           IN IF fb.accepted > 1 THEN -1
                              ELSE IF fb.index = 0 THEN 0
                              ELSE drapeContours[fb.index].area :
                             drapeContours \in FallbackLists}
          IN \/ TaskThrows(TRUE)
             \/ \E totalShadowPixelArea \in primary \ {0} :
                  TaskSegments(totalShadowPixelArea)
             \/ /\ 0 \in primary
                /\ \E found \in fallback :
                      IF found = -1 THEN TaskUsesDeleted
                      ELSE IF found = 0 THEN TaskFindsNothing
                      ELSE TaskSegments(found)
  /\ UNCHANGED <<imageVars, configVars, refVars>>
  /\ UNCHANGED notApp

AClearReference ==
  /\ clearEnabled
  /\ clearReferenceState
  /\ status' = "Reference cleared. Click on coin to detect."
  /\ UNCHANGED <<imageVars, configVars, measurements, historyBody, aClock, toast>>
  /\ run' = NoRun
  /\ UNCHANGED notApp

AResetApp ==
  /\ resetEnabled
  /\ isCameraActive' = FALSE
  /\ capturedImage' = FALSE
  /\ clearReferenceState
  /\ resetEnabled' = FALSE
  /\ status' = "App reset. Ready to start again."
  /\ toast' = "App reset successfully"
  /\ UNCHANGED <<configVars, measurements, historyBody, aClock>>
  /\ run' = NoRun
  /\ UNCHANGED notApp

\* ------------------------------------------------------------------------
\* JavaScript numbers as the engine computes them: IEEE 754 binary64, every
\* operation rounded to the nearest value, ties to the even significand.
\*
\* A natural number of any size is the sequence of its digits in base
\* LimbBase, lowest digit first, without leading zero digits.  A number is
\* [m, e], the value m * 2^e, with m = <<>> and e = 0 for zero and m of
\* exactly 53 bits otherwise.  Only the finite values >= 0 far from the ends
\* of the exponent range are represented: the functions modelled here clamp
\* their negative intermediate results to 0.
\* ------------------------------------------------------------------------
LimbBits == 15

LimbBase == 32768

SignificandBits == 53

RECURSIVE BTrim(_)
BTrim(a) ==
  IF a = <<>> THEN a
  ELSE IF a[Len(a)] = 0 THEN BTrim(SubSeq(a, 1, Len(a) - 1))
  ELSE a

RECURSIVE BFromInt(_)
BFromInt(n) == IF n = 0 THEN <<>> ELSE <<n % LimbBase>> \o BFromInt(n \div LimbBase)

BLimb(a, i) == IF i <= Len(a) THEN a[i] ELSE 0

RECURSIVE BAddFrom(_, _, _, _)
BAddFrom(a, b, i, carry) ==
  IF i > Len(a) /\ i > Len(b)
  THEN IF carry = 0 THEN <<>> ELSE <<carry>>
  ELSE LET t == BLimb(a, i) + BLimb(b, i) + carry
       IN <<t % LimbBase>> \o BAddFrom(a, b, i + 1, t \div LimbBase)

BAdd(a, b) == BAddFrom(a, b, 1, 0)

\* a - b for a >= b
RECURSIVE BSubFrom(_, _, _, _)
BSubFrom(a, b, i, borrow) ==
  IF i > Len(a) THEN <<>>
  ELSE LET t == a[i] - BLimb(b, i) - borrow
       IN IF t < 0 THEN <<t + LimbBase>> \o BSubFrom(a, b, i + 1, 1)
          ELSE <<t>> \o BSubFrom(a, b, i + 1, 0)

BSub(a, b) == BTrim(BSubFrom(a, b, 1, 0))

RECURSIVE BLessFrom(_, _, _)
BLessFrom(a, b, i) ==
  IF i = 0 THEN FALSE
  ELSE IF a[i] # b[i] THEN a[i] < b[i]
  ELSE BLessFrom(a, b, i - 1)

BLess(a, b) ==
  IF Len(a) # Len(b) THEN Len(a) < Len(b) ELSE BLessFrom(a, b, Len(a))

\* a * x for one digit x
RECURSIVE BMulLimbFrom(_, _, _, _)
BMulLimbFrom(a, x, i, carry) ==
  IF i > Len(a)
  THEN IF carry = 0 THEN <<>> ELSE <<carry>>
  ELSE LET t == a[i] * x + carry
       IN <<t % LimbBase>> \o BMulLimbFrom(a, x, i + 1, t \div LimbBase)

BMulLimb(a, x) == IF x = 0 THEN <<>> ELSE BMulLimbFrom(a, x, 1, 0)

BShiftLimbs(a, k) == IF a = <<>> THEN a ELSE [i \in 1..k |-> 0] \o a

RECURSIVE BMulFrom(_, _, _)
BMulFrom(a, b, j) ==
  IF j > Len(b) THEN <<>>
  ELSE BAdd(BShiftLimbs(BMulLimb(a, b[j]), j - 1), BMulFrom(a, b, j + 1))

BMul(a, b) == BMulFrom(a, b, 1)

\* a * 2^k
BShl(a, k) == BShiftLimbs(BMulLimb(a, 2 ^ (k % LimbBits)), k \div LimbBits)

\* floor(a / 2^k)
BShr(a, k) ==
  LET drop == k \div LimbBits
      r == k % LimbBits
      rest == IF drop >= Len(a) THEN <<>> ELSE SubSeq(a, drop + 1, Len(a))
  IN BTrim([i \in 1..Len(rest) |->
              (rest[i] \div 2 ^ r) + (BLimb(rest, i + 1) % 2 ^ r) * 2 ^ (LimbBits - r)])

RECURSIVE IntBitLen(_)
IntBitLen(n) == IF n = 0 THEN 0 ELSE 1 + IntBitLen(n \div 2)

BBitLen(a) == IF a = <<>> THEN 0 ELSE LimbBits * (Len(a) - 1) + IntBitLen(a[Len(a)])

\* one step of the long division by b, whose top digit is at least
\* LimbBase / 2: qr is the quotient and the remainder so far, digit the next
\* digit of the dividend.  The quotient digit is estimated from the top two
\* digits of the remainder and is at most 2 too large.
BDivModDigit(b, qr, digit) ==
  LET r == BTrim(<<digit>> \o qr.r)
      estimate == (BLimb(r, Len(b) + 1) * LimbBase + BLimb(r, Len(b))) \div b[Len(b)]
      q1 == IF estimate > LimbBase - 1 THEN LimbBase - 1 ELSE estimate
      q2 == IF BLess(r, BMulLimb(b, q1)) THEN q1 - 1 ELSE q1
      q3 == IF BLess(r, BMulLimb(b, q2)) THEN q2 - 1 ELSE q2
  IN [q |-> BTrim(<<q3>> \o qr.q), r |-> BSub(r, BMulLimb(b, q3))]

\* quotient and remainder of the digits of a from the top one down to
\* digit k
RECURSIVE BDivModFrom(_, _, _)
BDivModFrom(a, b, k) ==
  IF k > Len(a) THEN [q |-> <<>>, r |-> <<>>]
  ELSE BDivModDigit(b, BDivModFrom(a, b, k + 1), a[k])

\* quotient and remainder of a / b, for b with a top digit of at least
\* LimbBase / 2
BDivMod(a, b) == BDivModFrom(a, b, 1)

Zero64 == [m |-> <<>>, e |-> 0]

\* the number nearest to m * 2^e, or to a value just above it when sticky
\* (a quotient with a remainder, always of more than 53 bits)
Round64(m, e, sticky) ==
  LET len == BBitLen(m)
  IN IF len = 0 THEN Zero64
     ELSE IF len <= SignificandBits
     THEN [m |-> BShl(m, SignificandBits - len), e |-> e - (SignificandBits - len)]
     ELSE LET shift == len - SignificandBits
              q == BShr(m, shift)
              rem == BSub(m, BShl(q, shift))
              half == BShl(<<1>>, shift - 1)
              up == \/ BLess(half, rem)
                    \/ rem = half /\ (sticky \/ BLimb(q, 1) % 2 = 1)
              q2 == IF up THEN BAdd(q, <<1>>) ELSE q
          IN IF BBitLen(q2) > SignificandBits
             THEN [m |-> BShr(q2, 1), e |-> e + shift + 1]
             ELSE [m |-> q2, e |-> e + shift]

FromInt64(n) == Round64(BFromInt(n), 0, FALSE)

Less64(x, y) ==
  IF y.m = <<>> THEN FALSE
  ELSE IF x.m = <<>> THEN TRUE
  ELSE IF x.e # y.e THEN x.e < y.e
  ELSE BLess(x.m, y.m)

Mul64(x, y) ==
  IF x.m = <<>> \/ y.m = <<>> THEN Zero64
  ELSE Round64(BMul(x.m, y.m), x.e + y.e, FALSE)

\* x / y for y > 0: both significands are shifted to whole digits, the
\* dividend by as many digits again
Div64(x, y) ==
  IF x.m = <<>> THEN Zero64
  ELSE LET s == LimbBits * Len(y.m) - SignificandBits
           qr == BDivMod(BShiftLimbs(BShl(x.m, s), Len(y.m)), BShl(y.m, s))
       IN Round64(qr.q, x.e - y.e - LimbBits * Len(y.m), qr.r # <<>>)

Add64(x, y) ==
  IF x.m = <<>> THEN y
  ELSE IF y.m = <<>> THEN x
  ELSE IF x.e >= y.e THEN Round64(BAdd(BShl(x.m, x.e - y.e), y.m), y.e, FALSE)
  ELSE Round64(BAdd(BShl(y.m, y.e - x.e), x.m), x.e, FALSE)

\* x - y for x >= y
Sub64(x, y) ==
  IF y.m = <<>> THEN x
  ELSE Round64(BSub(BShl(x.m, x.e - y.e), y.m), y.e, FALSE)

\* Math.PI, 0x400921FB54442D18
MathPI == [m |-> <<11544, 10376, 2029, 201>>, e |-> -51]

\* ------------------------------------------------------------------------
\* DrapeCalculatorUtils of src/Script.js on JavaScript numbers
\* ------------------------------------------------------------------------
MaxFpDiameter == 8

FpDiameters == 1..MaxFpDiameter \cup {18, 30}

FpCoefficients == 0..100

calculateCircleArea64(diameter) ==
  IF ~Less64(Zero64, diameter) THEN Zero64
  ELSE LET radius == Div64(diameter, FromInt64(2))
       IN Mul64(Mul64(MathPI, radius), radius)

calculateExpectedDrapeArea64_noDisk(diskD, fabricD, drapeCoefficient) ==
  LET diskArea == calculateCircleArea64(diskD)
      fabricArea == calculateCircleArea64(fabricD)
  IN Mul64(Sub64(fabricArea, diskArea), Div64(drapeCoefficient, FromInt64(100)))

\* for fabricDiameter >= diskDiameter
calculateExpectedDrapeArea64(diskD, fabricD, drapeCoefficient) ==
  LET diskArea == calculateCircleArea64(diskD)
      fabricArea == calculateCircleArea64(fabricD)
  IN Add64(diskArea,
           Mul64(Sub64(fabricArea, diskArea), Div64(drapeCoefficient, FromInt64(100))))

calculateDrapeCoefficient64(drapedArea, diskD, fabricD) ==
  IF ~Less64(Zero64, drapedArea) THEN Zero64
  ELSE IF ~Less64(Zero64, diskD) THEN Zero64
  ELSE IF ~Less64(Zero64, fabricD) THEN Zero64
  ELSE LET diskArea == calculateCircleArea64(diskD)
           fabricArea == calculateCircleArea64(fabricD)
       IN IF ~Less64(diskArea, fabricArea) THEN Zero64
          ELSE IF Less64(drapedArea, diskArea) THEN Zero64
          ELSE LET coefficient ==
                     Mul64(Div64(Sub64(drapedArea, diskArea), Sub64(fabricArea, diskArea)),
                           FromInt64(100))
               IN IF Less64(FromInt64(100), coefficient) THEN FromInt64(100)
                  ELSE coefficient

FpInit ==
  /\ fpc = "arguments"
  /\ fDisk \in FpDiameters
  /\ fFabric \in {f \in FpDiameters : f > fDisk}
  /\ fCoefficient \in FpCoefficients
  /\ fArea = Zero64
  /\ fBack = Zero64

FpQuiet ==
  /\ fpc = "idle"
  /\ fDisk = 0
  /\ fFabric = 0
  /\ fCoefficient = 0
  /\ fArea = Zero64
  /\ fBack = Zero64

FExpectedDrapeArea ==
  /\ fpc = "arguments"
  /\ fpc' = "area"
  /\ fArea' = calculateExpectedDrapeArea64(FromInt64(fDisk), FromInt64(fFabric),
                                           FromInt64(fCoefficient))
  /\ UNCHANGED <<fDisk, fFabric, fCoefficient, fBack>>
  /\ UNCHANGED notFp

FDrapeCoefficient ==
  /\ fpc = "area"
  /\ fpc' = "coefficient"
  /\ fBack' = calculateDrapeCoefficient64(fArea, FromInt64(fDisk), FromInt64(fFabric))
  /\ UNCHANGED <<fDisk, fFabric, fCoefficient, fArea>>
  /\ UNCHANGED notFp

FpNext ==
  \/ FExpectedDrapeArea
  \/ FDrapeCoefficient

\* ------------------------------------------------------------------------
\* The selection loops of detectCoinHough, detectCoinContour and
\* processDrapeArea, each applied to the candidates of one image.  Distances
\* are kept squared: d <= r is d2 <= r*r, d < 0.9 r is 100 d2 < 81 r*r,
\* d < 12 is d2 < 144.
\* ------------------------------------------------------------------------
MaxCandidates == 2

Centres == {<<0, 0>>, <<6, 8>>, <<8, 6>>, <<11, 0>>, <<17, 0>>, <<19, 0>>}

CircleRadii == {10, 20}

Circles == {[x |-> c[1], y |-> c[2], radius |-> r] : c \in Centres, r \in CircleRadii}

Seeds == {<<0, 0>>, <<6, 8>>}

\* contours of the edge image: area in px2, circularity > 0.3 or not
EdgeContours == {[area |-> a, circular |-> c] : a \in {1000, 1100, 1500, 2000, 2100},
                                                c \in BOOLEAN}

\* contours of the intensity band: raw area and convex hull area in px2
IntensityContours ==
  {[area |-> 900, hullArea |-> 1500], [area |-> 1200, hullArea |-> 1500],
   [area |-> 1300, hullArea |-> 1400], [area |-> 1600, hullArea |-> 1900],
   [area |-> 1200, hullArea |-> 2000]}

Bands == {[lo |-> 1100, hi |-> 2000]}

SeqsUpTo(S, n) == UNION {[1..k -> S] : k \in 0..n}

Distance2(x, y, clickX, clickY) == (x - clickX) * (x - clickX) + (y - clickY) * (y - clickY)

\* isInsideCircle && distance < acceptanceRadius
clickAccepted(distance2, radius) ==
  /\ distance2 <= radius * radius
  /\ (100 * distance2 < 81 * radius * radius \/ distance2 < 144)

NoCircle == [index |-> 0, x |-> 0, y |-> 0, radius |-> 0]

\* distance < minDistance, minDistance being Infinity (-1 here) at first
closerCircle(distance2, minDistance2) ==
  minDistance2 < 0 \/ distance2 < minDistance2

\* the loop of detectCoinHough and of detectCoinContour over the circles as
\* the loop sees them
RECURSIVE bestCircle(_, _, _, _, _, _)
bestCircle(circles, clickX, clickY, i, best, minDistance2) ==
  IF i > Len(circles) THEN best
  ELSE LET c == circles[i]
           distance2 == Distance2(c.x, c.y, clickX, clickY)
       IN IF clickAccepted(distance2, c.radius) /\ closerCircle(distance2, minDistance2)
          THEN bestCircle(circles, clickX, clickY, i + 1,
                          [index |-> i, x |-> c.x, y |-> c.y, radius |-> c.radius],
                          distance2)
          ELSE bestCircle(circles, clickX, clickY, i + 1, best, minDistance2)

detectCoinHough(circles, clickX, clickY) == bestCircle(circles, clickX, clickY, 1, NoCircle, -1)

\* what cv.minEnclosingCircle(contour, center, radius) can do with a Point
\* and a number it is handed: throw on the argument count, fill the Point, or
\* fill nothing; the number radius cannot be written to in any case
Bindings == {"throws", "fillsCenter", "fillsNothing"}

\* detectCoinContour over the contours that pass its area and circularity
\* filters, each given by its minimum enclosing circle
detectCoinContour(contours, clickX, clickY, binding) ==
  IF binding = "throws" /\ contours # <<>> THEN NoCircle
  ELSE bestCircle([i \in 1..Len(contours) |->
                     [x |-> IF binding = "fillsCenter" THEN contours[i].x ELSE 0,
                      y |-> IF binding = "fillsCenter" THEN contours[i].y ELSE 0,
                      radius |-> 0]],
                  clickX, clickY, 1, NoCircle, -1)

NoResult == [index |-> 0, x |-> 0, y |-> 0, radius |-> 0,
             fallbackRan |-> FALSE, fbIndex |-> 0, accepted |-> 0]

SelInit ==
  /\ qResult = NoResult
  /\ \/ /\ qpc = "coin"
        /\ qCircles \in SeqsUpTo(Circles, MaxCandidates)
        /\ qSeed \in Seeds
        /\ qEdges = <<>>
        /\ qIntensity = <<>>
        /\ qBand = [lo |-> 0, hi |-> 0]
     \/ /\ qpc = "drape"
        /\ qCircles = <<>>
        /\ qSeed = <<0, 0>>
        /\ qEdges \in SeqsUpTo(EdgeContours, MaxCandidates)
        /\ qIntensity \in SeqsUpTo(IntensityContours, MaxCandidates)
        /\ qBand \in Bands

SelQuiet ==
  /\ qpc = "idle"
  /\ qCircles = <<>>
  /\ qSeed = <<0, 0>>
  /\ qEdges = <<>>
  /\ qIntensity = <<>>
  /\ qBand = [lo |-> 0, hi |-> 0]
  /\ qResult = NoResult

QDetectCoinHough ==
  /\ qpc = "coin"
  /\ qpc' = "hough"
  /\ LET c == detectCoinHough(qCircles, qSeed[1], qSeed[2])
     IN qResult' = [NoResult EXCEPT !.index = c.index, !.x = c.x, !.y = c.y,
                                    !.radius = c.radius]
  /\ UNCHANGED <<qCircles, qSeed, qEdges, qIntensity, qBand>>
  /\ UNCHANGED notSel

QDetectCoinContour ==
  /\ qpc = "coin"
  /\ qpc' = "contour"
  /\ \E binding \in Bindings :
       LET c == detectCoinContour(qCircles, qSeed[1], qSeed[2], binding)
       IN qResult' = [NoResult EXCEPT !.index = c.index, !.x = c.x, !.y = c.y,
                                      !.radius = c.radius]
  /\ UNCHANGED <<qCircles, qSeed, qEdges, qIntensity, qBand>>
  /\ UNCHANGED notSel

\* the two selection loops of processDrapeArea, the second one entered when
\* bestContourIndex < 0 after the first
QSelectDrape ==
  /\ qpc = "drape"
  /\ qpc' = "selected"
  /\ LET lo == Rat(qBand.lo, 1)
         hi == Rat(qBand.hi, 1)
         primary == selectPrimary(qEdges, 1, lo, hi, 0, 0)
         fb == selectFallback(qIntensity, 1, lo, hi, 0, 0, 0)
     IN qResult' = IF primary # 0
                   THEN [NoResult EXCEPT !.index = primary]
                   ELSE [NoResult EXCEPT !.fallbackRan = TRUE, !.fbIndex = fb.index,
                                         !.accepted = fb.accepted]
  /\ UNCHANGED <<qCircles, qSeed, qEdges, qIntensity, qBand>>
  /\ UNCHANGED notSel

SelNext ==
  \/ QDetectCoinHough
  \/ QDetectCoinContour
  \/ QSelectDrape

\* ------------------------------------------------------------------------
\* The history of the AppState application on its own: addToHistory as
\* calculateDrapeCoefficient calls it, and the Delete button of a table row.
\* ------------------------------------------------------------------------
MaxRowAdds == 3

RowAreas == {Rat(625, 8), Rat(3125, 8)}

RAddToHistory ==
  /\ aClock < MaxRowAdds
  /\ \E area \in RowAreas :
       /\ measurements' = appAddToHistory(measurements, area, Rat(100, 1),
                                          DrapeFormulas_fabricProperties(Rat(100, 1)),
                                          aClock + 1)
       /\ historyBody' = prependRow(historyBody, aClock + 1)
  /\ aClock' = aClock + 1
  /\ UNCHANGED <<imageVars, configVars, refVars, areaVars, runVars, status, toast, run>>
  /\ UNCHANGED notApp

RDeleteRow ==
  /\ \E row \in 1..Len(historyBody) :
       /\ measurements' = deleteRow(measurements, historyBody, row)
       /\ historyBody' = RemoveAt(historyBody, row)
  /\ UNCHANGED <<imageVars, configVars, refVars, areaVars, runVars, status, toast, run,
                 aClock>>
  /\ UNCHANGED notApp

RowsNext ==
  \/ RAddToHistory
  \/ RDeleteRow

AppNext ==
  \/ AStartCamera
  \/ AHandleImageUpload
  \/ ACaptureImage
  \/ AReferenceDiameterChange
  \/ ADiskDiameterChange
  \/ AFabricDiameterChange
  \/ ARefTargetChange
  \/ AShapeSizeChange
  \/ ACanvasClick
  \/ ATimerFires
  \/ AClearReference
  \/ AResetApp

\* ------------------------------------------------------------------------
\* Specifications: one per program, the other programs at rest
\* ------------------------------------------------------------------------
InitUtils == UtilInit /\ HistQuiet /\ AppQuiet /\ SelQuiet /\ FpQuiet

InitHist == UtilInit /\ HistInit /\ AppQuiet /\ SelQuiet /\ FpQuiet

InitApp == UtilInit /\ HistQuiet /\ AppInit /\ SelQuiet /\ FpQuiet

SpecUtils == InitUtils /\ [][UtilNext]_vars

SpecHist == InitHist /\ [][HistNext]_vars

SpecApp == InitApp /\ [][AppNext]_vars

InitSel == UtilInit /\ HistQuiet /\ AppQuiet /\ SelInit /\ FpQuiet

SpecSel == InitSel /\ [][SelNext]_vars

InitFp == UtilInit /\ HistQuiet /\ AppQuiet /\ SelQuiet /\ FpInit

SpecFp == InitFp /\ [][FpNext]_vars

InitRows == UtilInit /\ HistQuiet /\ AppInit /\ SelQuiet /\ FpQuiet

SpecRows == InitRows /\ [][RowsNext]_vars

InitAppSmallDisk == UtilInit /\ HistQuiet /\ AppInitSmallDisk /\ SelQuiet /\ FpQuiet

\* the application with a support disk other than the standard 18 cm
SpecAppSmallDisk == InitAppSmallDisk /\ [][AppNext]_vars

\* the browser runs every callback handed to setTimeout
SpecAppFair == InitApp /\ [][AppNext]_vars /\ WF_vars(ATimerFires)

\* ------------------------------------------------------------------------
\* Properties of the formula library (checked under SpecUtils)
\* ------------------------------------------------------------------------
ValidConfig == /\ ~isNaN(uDisk) /\ ~isNaN(uFabric)
               /\ uDisk.v > 0 /\ uFabric.v > uDisk.v

Computed == upc \in {"coefficient", "category"}

\* C1: for fabricD > diskD > 0 the result of calculateDrapeCoefficient lies in
\* [0,100]; it is 0 when drapedArea is the disk's circle area and 100 when it
\* is the fabric's circle area.
C1_CoefficientRange ==
  (Computed /\ ValidConfig) =>
     /\ 0 * uCoef.d <= uCoef.n
     /\ uCoef.n <= 100 * uCoef.d
     /\ uCoef.d > 0
     /\ (~isNaN(uArea) /\ uArea.v = uDisk.v * uDisk.v) => uCoef.n = 0
     /\ (~isNaN(uArea) /\ uArea.v = uFabric.v * uFabric.v) => uCoef.n = 100 * uCoef.d

C1_Witness ==
  /\ Computed /\ ValidConfig /\ ~isNaN(uArea)
  /\ uArea.v = uFabric.v * uFabric.v
  /\ uCoef.n = 100 * uCoef.d

C3_DegenerateIsZero ==
  (Computed /\ (\/ isNaN(uDisk) \/ isNaN(uFabric)
                \/ uDisk.v <= 0 \/ uFabric.v <= 0
                \/ uFabric.v <= uDisk.v
                \/ (~isNaN(uArea) /\ uArea.v <= 0))) =>
     (uCoef.d > 0 /\ uCoef.n = 0)

C3_Witness ==
  /\ Computed /\ ~isNaN(uDisk) /\ ~isNaN(uFabric) /\ ~isNaN(uArea)
  /\ uDisk.v > 0 /\ uFabric.v > 0 /\ uFabric.v < uDisk.v
  /\ uArea.v > 0 /\ uArea.v < uDisk.v * uDisk.v
  /\ uCoef.n = 0

\* C4: getDrapeCategory maps every c in [0,100] to exactly one category with
\* c < 30 Stiff, 30 <= c < 60 Medium Drape, 60 <= c < 85 Good Drape,
\* 85 <= c <= 100 Excellent Drape, and a coefficient produced by
\* calculateDrapeCoefficient is never 'Invalid' or 'Very High Drape'.
C4_CategoryBoundaries ==
  /\ (upc = "classified" /\ 0 <= uCoef.n /\ uCoef.n <= 100 * uCoef.d) =>
       /\ (uCat = "Stiff") <=> (uCoef.n < 30 * uCoef.d)
       /\ (uCat = "Medium Drape") <=>
             (30 * uCoef.d <= uCoef.n /\ uCoef.n < 60 * uCoef.d)
       /\ (uCat = "Good Drape") <=>
             (60 * uCoef.d <= uCoef.n /\ uCoef.n < 85 * uCoef.d)
       /\ (uCat = "Excellent Drape") <=> (85 * uCoef.d <= uCoef.n)
  /\ (upc = "category") => uCat \in {"Stiff", "Medium Drape", "Good Drape",
                                      "Excellent Drape"}

C4_Witness ==
  /\ upc = "classified" /\ uCoef = Rat(30, 1) /\ uCat = "Medium Drape"

\* ------------------------------------------------------------------------
\* Properties of the measurementHistory application (checked under SpecHist)
\* ------------------------------------------------------------------------
MinOf(a, b) == IF a < b THEN a ELSE b

\* C5: starting from a saved history of at most 20 entries, after any run of
\* addToHistory calls measurementHistory has at most 20 entries, most recent
\* first, and holds exactly the min(n,20) most recently added measurements.
C5_HistoryEviction ==
  /\ Len(measurementHistory) <= HistoryCap
  /\ \A i, j \in 1..Len(measurementHistory) :
        i < j => measurementHistory[i].id > measurementHistory[j].id
  /\ (hRemoved = 0) =>
        /\ Len(measurementHistory) = MinOf(hNow, HistoryCap)
        /\ \A i \in 1..Len(measurementHistory) :
              measurementHistory[i].id = hNow - i + 1

C5_Witness ==
  /\ hRemoved = 0
  /\ hNow >= hLoaded + 2
  /\ hNow > HistoryCap + 1
  /\ Len(measurementHistory) = HistoryCap
  /\ measurementHistory[HistoryCap].id = hNow - HistoryCap + 1
  /\ measurementHistory[1].id = hNow

InvalidPress ==
  \/ actualArea.dash
  \/ actualArea.v <= 0
  \/ isNaN(hDisk) \/ hDisk.v <= 0
  \/ isNaN(hFabric) \/ hFabric.v <= 0
  \/ hFabric.v <= hDisk.v

\* C8: a press of 'Calculate Drape %' with a missing or non-positive measured
\* area, a non-positive or non-numeric disk or fabric diameter, or
\* fabricDiameter <= diskDiameter leaves measurementHistory, the persisted
\* history and the displayed coefficient unchanged.
C8_InvalidPressChangesNothing ==
  [][(hPressed' /\ InvalidPress) =>
        UNCHANGED <<measurementHistory, stored, drapeCoefficientText>>]_vars

C8_Witness ==
  /\ hPressed
  /\ ~actualArea.dash /\ actualArea.v > 0
  /\ hDisk = Num(30) /\ hFabric = Num(18)
  /\ measurementHistory # <<>>

\* ------------------------------------------------------------------------
\* Properties of the AppState application (checked under SpecApp)
\* ------------------------------------------------------------------------
\* C6 as stated: AppState.measurements holds at most 20 entries and lists
\* them most-recent-first.
C6_AsStated ==
  /\ Len(measurements) <= HistoryCap
  /\ \A i \in 1..(Len(measurements) - 1) :
        measurements[i].time > measurements[i + 1].time

AInvalidConfig ==
  diskDiameter <= 0 \/ fabricDiameter <= 0 \/ fabricDiameter <= diskDiameter

\* a step in which a seed click detects a reference or starts a segmentation
SeedTakesEffect ==
  \/ detectedCoin' # detectedCoin /\ detectedCoin'.found
  \/ referencePixelArea' # referencePixelArea /\ referencePixelArea' # 0
  \/ Len(timers') > Len(timers)

\* C7 as stated: while the configured diameters violate diskDiameter > 0,
\* fabricDiameter > 0 or fabricDiameter > diskDiameter, no step calibrates,
\* starts a segmentation or appends a Measurement.
C7_AsStated ==
  [][AInvalidConfig =>
       (~SeedTakesEffect /\ Len(measurements') <= Len(measurements))]_vars

SeedStatuses ==
  {"Click must be within the image area",
   "Error detecting coin",
   "Could not detect coin. Click closer to coin center.",
   "Coin detected! Processing drape area...",
   "Select a square size, then click inside the square reference object.",
   "Error detecting square reference object",
   "Could not detect a reference region around the click.",
   "Square reference detected and shape area calculated from pixels."}

\* C9: at most one deferred segmentation task is pending, isProcessing is
\* true exactly while one is pending, and while it is true no step detects
\* a reference, starts a segmentation or writes a status line of detectCoin
\* or detectReferenceShape.
C9_SingleInFlight ==
  /\ [](Len(timers) <= 1 /\ (isProcessing <=> timers # <<>>))
  /\ [][isProcessing =>
          (~SeedTakesEffect /\ (status' \in SeedStatuses => status' = status))]_vars

C9_Witness ==
  /\ isProcessing
  /\ Len(timers) = 1
  /\ status = "Coin detected! Processing drape area..."
  /\ toast = "Please load an image first"

\* the deferred task of a run that clearReference, resetApp or an image load
\* has overtaken completes in this step
StaleCompletion ==
  /\ timers # <<>>
  /\ Head(timers).stale
  /\ timers' = Tail(timers)

\* C10 as stated: the completion of a deferred task that was pending when
\* resetApp, clearReference or an image load ran writes no area, appends no
\* Measurement and shows no status line or toast.
C10_AsStated ==
  [][StaleCompletion =>
       UNCHANGED <<areaVars, measurements, status, toast>>]_vars

\* a step in which detectCoin or detectReferenceShape stores a new reference
CalibrationSucceeds ==
  \/ detectedCoin' # detectedCoin /\ detectedCoin'.found
  \/ referencePixelArea' # referencePixelArea /\ referencePixelArea' > 0

\* C11 as stated: every successful calibration, by a coin click or by a click
\* on the square reference, schedules a segmentation run in the same step.
C11_AsStated ==
  [][CalibrationSucceeds => (Len(timers') = Len(timers) + 1 /\ isProcessing')]_vars

\* C12 as stated: at most one reference object is active at a time, a stored
\* coin circle and a stored square reference never coexist.
C12_AsStated == ~(detectedCoin.found /\ referencePixelArea > 0)

\* C13 as stated: a scale factor that is set is a positive number.
C13_AsStated == scaleFactor # NoRat => scaleFactor.n > 0 /\ scaleFactor.d > 0

\* the state right after resetApp, handleImageUpload or captureImage succeeded
JustResetOrLoaded ==
  \/ status = "App reset. Ready to start again." /\ toast = "App reset successfully"
  \/ /\ status = "Reference cleared. Click on coin to detect."
     /\ toast \in {"Image loaded successfully", "Image captured successfully"}

\* C14 as stated: right after a reset or a new image, the reference, the scale
\* and all four drape areas are cleared.
C14_AsStated ==
  JustResetOrLoaded =>
    /\ ~detectedCoin.found /\ scaleFactor = NoRat /\ referencePixelArea = 0
    /\ drapeArea = Rat(0, 1) /\ drapePixelArea = 0
    /\ drapeAreaTotal = Rat(0, 1) /\ drapePixelAreaTotal = 0

\* the statuses of a calibration or a segmentation that found nothing, and of
\* a calibration that threw
ExpectedFailureStatuses ==
  {"Could not detect coin. Click closer to coin center.",
   "Error detecting coin",
   "Could not detect a reference region around the click.",
   "Error detecting square reference object",
   "Could not detect drape area. Check disk/fabric diameter settings."}

\* C15 as stated: a step that reports a failed calibration or a segmentation
\* that found no drape leaves the reference, the scale, the reference pixel
\* area, the drape areas and the history as they were.
C15_AsStated ==
  [][(status' # status /\ status' \in ExpectedFailureStatuses)
       => UNCHANGED <<detectedCoin, scaleFactor, referencePixelArea, areaVars,
                      measurements>>]_vars

ErrorStatuses ==
  {"Error detecting coin", "Error detecting square reference object",
   "Error processing drape area"}

\* C16 as stated: whenever an OpenCV call failed in the click or the task just
\* made, the status shown is one of the error statuses.
C16_AsStated == run.cvFailed => status \in ErrorStatuses

\* a step in which the deferred task of processDrapeArea ends
TaskEnds == timers # <<>> /\ timers' = Tail(timers)

\* C17 as stated: a deferred task that ends in the catch block leaves the five
\* area fields and the history as they were before it started.
C17_AsStated ==
  [][(TaskEnds /\ status' = "Error processing drape area")
       => UNCHANGED <<areaVars, measurements>>]_vars

SegmentationSucceeds == TaskEnds /\ status' = "Drape area processed successfully"

\* C18 as stated: a deferred task that succeeds appends exactly one
\* measurement and one that fails appends none; in the measurementHistory application a press of
\* 'Calculate Drape %' that follows a press, with no new analysis between
\* them, leaves the history alone.
C18_AsStated ==
  /\ [][TaskEnds =>
          IF status' = "Drape area processed successfully"
          THEN /\ Len(measurements') = Len(measurements) + 1
               /\ SubSeq(measurements', 1, Len(measurements)) = measurements
          ELSE measurements' = measurements]_vars
  /\ [][(hPressed /\ hPressed') => measurementHistory' = measurementHistory]_vars

\* C19: a successful segmentation stores a fabric-only pixel area that is at
\* most the total shadow pixel area; it is the total less the disk pixels
\* inside the shadow when a disk circle is stored, and the total otherwise.
C19_FabricOnlyWithinTotal ==
  [][SegmentationSucceeds =>
       /\ drapePixelArea' <= drapePixelAreaTotal'
       /\ detectedDiskCircle' =>
            drapePixelArea' = drapePixelAreaTotal' - run'.overlap
       /\ ~detectedDiskCircle' => drapePixelArea' = drapePixelAreaTotal']_vars

C19_Witness ==
  /\ status = "Drape area processed successfully"
  /\ run.disk = "found" /\ detectedDiskCircle
  /\ run.overlap > 0
  /\ drapePixelArea < drapePixelAreaTotal

ScaleAndSegmentationPresent ==
  /\ scaleFactor # NoRat /\ scaleFactor.n > 0
  /\ drapePixelAreaTotal > 0 /\ drapeAreaTotal.n > 0

\* C21 as stated: whenever a scale factor and a segmentation result are both
\* stored, the two cm2 areas are the two pixel areas divided by the square of
\* the stored scale factor.
C21_AsStated ==
  ScaleAndSegmentationPresent =>
    /\ drapeAreaTotal = pixelAreaToCm2(drapePixelAreaTotal, scaleFactor)
    /\ drapeArea = pixelAreaToCm2(drapePixelArea, scaleFactor)

CalibrationFailureStatuses ==
  {"Could not detect coin. Click closer to coin center.",
   "Error detecting coin",
   "Could not detect a reference region around the click.",
   "Error detecting square reference object"}

\* C23 as stated: a step of the AppState application that reports a failed
\* calibration leaves the image loaded and the next seed click accepted; a
\* step of the measurementHistory application that keeps the image and shows
\* no measured area (the click found no drape or no reference, or threw)
\* leaves the canvas click listener attached.
C23_AsStated ==
  /\ [][(status' # status /\ status' \in CalibrationFailureStatuses)
          => (capturedImage' /\ seedAccepted(capturedImage', isProcessing'))]_vars
  /\ [][(hClickArmed /\ hCapturedImage /\ hCapturedImage' /\ actualArea' = actualArea)
          => hClickArmed']_vars

\* C28: whenever isProcessing is true it is false again later, given that the
\* deferred task is eventually run.
C28_ProcessingEnds == isProcessing ~> ~isProcessing

C28_Witness ==
  /\ ~isProcessing /\ timers = <<>>
  /\ status \in {"Drape area processed successfully",
                 "Could not detect drape area. Check disk/fabric diameter settings.",
                 "Error processing drape area"}
  /\ detectedCoin.found

\* C27 as stated: the coefficient of the Measurement a successful task appends
\* is the one the configured disk and fabric diameters give for the total
\* shadow area.
C27_AsStated ==
  [][SegmentationSucceeds =>
       measurements'[Len(measurements')].coefficient
         = DrapeFormulas_drapeCoefficient(drapeAreaTotal', diskDiameter, fabricDiameter)]_vars

\* C30 as stated: the click or task just made used no deleted OpenCV object,
\* and a task that built a shadow mask and ended successfully deleted it
\* exactly once.
C30_AsStated ==
  /\ ~run.usedDeleted
  /\ (run.disk # "-" /\ status = "Drape area processed successfully")
       => run.shadowMaskDeletes = 1

\* C22 as stated: a step that removes a row of the history table removes from
\* AppState.measurements exactly the measurement that row shows and keeps the
\* others in their order.
C22_AsStated ==
  [][Len(historyBody') < Len(historyBody) =>
       LET gone == {historyBody[i] : i \in 1..Len(historyBody)}
                     \ {historyBody'[i] : i \in 1..Len(historyBody')}
           Stays(x) == x.time \notin gone
       IN measurements' = SelectSeq(measurements, Stays)]_vars

\* ------------------------------------------------------------------------
\* The selection loops
\* ------------------------------------------------------------------------
Qualifying(circles, seed) ==
  {i \in 1..Len(circles) :
     clickAccepted(Distance2(circles[i].x, circles[i].y, seed[1], seed[2]), circles[i].radius)}

SeedDistance2(circles, seed, i) == Distance2(circles[i].x, circles[i].y, seed[1], seed[2])

ClosestQualifying(circles, seed, result) ==
  IF Qualifying(circles, seed) = {} THEN result.index = 0
  ELSE /\ result.index \in Qualifying(circles, seed)
       /\ result.x = circles[result.index].x
       /\ result.y = circles[result.index].y
       /\ result.radius = circles[result.index].radius
       /\ \A j \in Qualifying(circles, seed) :
            /\ SeedDistance2(circles, seed, j) >= SeedDistance2(circles, seed, result.index)
            /\ SeedDistance2(circles, seed, j) = SeedDistance2(circles, seed, result.index)
                 => j >= result.index

\* C24: detectCoinHough and detectCoinContour both return the qualifying
\* candidate (click inside the circle and nearer than max(0.9 radius, 12))
\* closest to the click, the first one among equally close ones, and return
\* null exactly when no candidate qualifies.
C24_AsStated ==
  qpc \in {"hough", "contour"} => ClosestQualifying(qCircles, qSeed, qResult)

C24_HoughLoop ==
  qpc = "hough" => ClosestQualifying(qCircles, qSeed, qResult)

PrimaryCandidates(contours, band) ==
  {i \in 1..Len(contours) :
     /\ band.lo <= contours[i].area
     /\ contours[i].area <= band.hi
     /\ contours[i].circular}

\* C25: among the contours with area inside the band (ends included) and
\* circularity above 0.3 the primary loop selects the largest area, the first
\* one among equal areas, and the fallback runs exactly when none is selected.
C25_PrimarySelection ==
  qpc = "selected" =>
    /\ IF PrimaryCandidates(qEdges, qBand) = {} THEN qResult.index = 0
       ELSE /\ qResult.index \in PrimaryCandidates(qEdges, qBand)
            /\ \A j \in PrimaryCandidates(qEdges, qBand) :
                 /\ qEdges[j].area <= qEdges[qResult.index].area
                 /\ qEdges[j].area = qEdges[qResult.index].area => j >= qResult.index
    /\ qResult.fallbackRan <=> qResult.index = 0

\* two equal largest candidates, the first one selected, no fallback
C25_Witness ==
  /\ qpc = "selected"
  /\ Len(qEdges) = 2
  /\ PrimaryCandidates(qEdges, qBand) = {1, 2}
  /\ qEdges[1].area = qEdges[2].area
  /\ qResult.index = 1
  /\ ~qResult.fallbackRan

FallbackCandidates(contours, band) ==
  {i \in 1..Len(contours) :
     /\ contours[i].area > 1000
     /\ band.lo < contours[i].hullArea
     /\ contours[i].hullArea < band.hi}

\* C26: when the fallback runs, the contour it selects has the largest hull
\* area among the contours with raw area above 1000 and hull area inside the
\* band, whatever the order of the contours.
C26_AsStated ==
  (qpc = "selected" /\ qResult.fallbackRan /\ FallbackCandidates(qIntensity, qBand) # {}) =>
    /\ qResult.fbIndex \in FallbackCandidates(qIntensity, qBand)
    /\ \A j \in FallbackCandidates(qIntensity, qBand) :
         qIntensity[j].hullArea <= qIntensity[qResult.fbIndex].hullArea

\* the same, for the runs in which the loop accepts one contour only
C26_SingleAcceptance ==
  (qpc = "selected" /\ qResult.fallbackRan /\ qResult.accepted = 1) =>
    \A j \in FallbackCandidates(qIntensity, qBand) :
      qIntensity[j].hullArea <= qIntensity[qResult.fbIndex].hullArea

\* ------------------------------------------------------------------------
\* The round trip
\* ------------------------------------------------------------------------
\* C29 as stated: the coefficient computed back from the expected area is
\* the coefficient the area was computed from.
C29_AsStated ==
  fpc = "coefficient" => fBack = FromInt64(fCoefficient)

\* |fBack - fCoefficient| in units of 2^(-scale), for fBack = m * 2^e, e <= 0
RoundTripError(scale) ==
  LET back == BShl(fBack.m, scale + fBack.e)
      c == BShl(BFromInt(fCoefficient), scale)
  IN IF BLess(back, c) THEN BSub(c, back) ELSE BSub(back, c)

\* C29: the coefficient computed back differs from the coefficient the area
\* was computed from by no more than rounding error,
\* 100 * 2^-50 * fabricD^2 / (fabricD^2 - diskD^2), compared in units of 2^-60.
C29_RoundTripUpToRounding ==
  fpc = "coefficient" =>
    ~BLess(BShl(BFromInt(100 * fFabric * fFabric), 10),
           BMul(RoundTripError(60), BFromInt(fFabric * fFabric - fDisk * fDisk)))

\* the round trip of 10 between the diameters 18 and 30 returns a number
\* just below 10
C29_Witness ==
  /\ fpc = "coefficient"
  /\ fDisk = 18
  /\ fFabric = 30
  /\ fCoefficient = 10
  /\ Less64(fBack, FromInt64(10))
  /\ Less64(FromInt64(9), fBack)


============================================================================
